---- MODULE Spec2Model ----
(***************************************************************************)
(* Model of scripts/plot_complexity.py: aggregation of benchmark rows,     *)
(* fitting of the catalog of complexity models, R2 scoring, selection of   *)
(* the best model and the reporting steps of main().                       *)
(*                                                                         *)
(* Numbers are exact rationals [num, den] (den > 0, lowest terms), the     *)
(* infinities are PosInf and NegInf and NaN is a value of its own.         *)
(*                                                                         *)
(* scipy.optimize.curve_fit is outside the repository: its result is a     *)
(* nondeterministic choice (a parameter vector, or an exception), except   *)
(* where its inputs force an exception.                                    *)
(*                                                                         *)
(* Specifications: SpecSelect (determine_best_model), SpecFit              *)
(* (fit_complexity_models), SpecEval (the catalog functions), SpecLoad     *)
(* (load_data and the series of each method), Spec (a run of main),        *)
(* SpecScenario (a run of main on six given observations), SpecRerun (the  *)
(* pipeline run twice on one table), SpecLoop (the loop of                 *)
(* fit_complexity_models, one model at a time) and SpecAnySize (fit and    *)
(* selection on sizes that need not be positive).                          *)
(***************************************************************************)
EXTENDS Integers, Sequences, FiniteSets, TLC

VARIABLES
    pc,                \* position in the run
    df,                \* rows of the benchmark CSV (load_data)
    avg_df,            \* aggregated rows (load_data)
    todo,              \* methods still to be analysed (plot_individual_methods)
    n_values,          \* sizes handed to fit_complexity_models
    time_values,       \* times handed to fit_complexity_models
    solver,            \* what curve_fit did for each catalog model in the last fit
    fit_results,       \* ordered mapping model name -> result-or-None
    best_model,        \* determine_best_model's first result
    best_r2,           \* determine_best_model's second result
    analysis_results,  \* ordered mapping method -> analysis (plot_individual_methods)
    report,            \* what generate_summary_report wrote
    console,           \* lines of main()'s complexity summary
    plotted,           \* what the figure of the last method shows (ax.plot)
    calls,             \* the calls of curve_fit made so far, with their outcomes
    previous,          \* the analysis_results of the runs completed before
    evaluated,         \* a catalog model evaluated at one size
    next_model,        \* position of the loop of fit_complexity_models in the catalog
    attempts,          \* the calls of curve_fit made by the fit under way, in order
    raised             \* the exception that left the function under analysis

vars == <<pc, df, avg_df, todo, n_values, time_values, solver, fit_results,
          best_model, best_r2, analysis_results, report, console, plotted,
          calls, previous, evaluated, next_model, attempts, raised>>

----------------------------------------------------------------------------
(* Bounds *)

MaxR2 == 2       \* R2 values of a drawn mapping range over -MaxR2/2 .. 1
MaxLen == 3      \* longest vector handed directly to fit_complexity_models
MaxObs == 3      \* most rows of the benchmark CSV
MaxRerunObs == 2 \* most rows of the benchmark CSV of a run that is repeated
MaxSize == 6     \* largest size at which a catalog model is evaluated alone

ParamValues == {0, 1}        \* values a fitted parameter takes
SizeValues == {1, 2, 3}      \* num_instances values
TimeValues == {1, 2}         \* time_ms values

----------------------------------------------------------------------------
(* Exact rational arithmetic standing for the floats of the script *)

RECURSIVE GCD(_, _)
GCD(a, b) == IF b = 0 THEN a ELSE GCD(b, a % b)

Abs(x) == IF x < 0 THEN -x ELSE x

Rat(n, d) ==
    LET g == GCD(Abs(n), d)
    IN  [num |-> n \div g, den |-> d \div g]

Num(i) == [num |-> i, den |-> 1]

(* pandas' and numpy's NaN *)
NaN == [nan |-> TRUE]

(* np.inf and -np.inf *)
PosInf == [num |-> 1, den |-> 0]
NegInf == [num |-> -1, den |-> 0]

(* a float that is a number: neither NaN nor an infinity *)
Finite(x) == x # NaN /\ x.den # 0

Sign(i) == IF i > 0 THEN 1 ELSE IF i < 0 THEN -1 ELSE 0

(* the infinity of sign s; NaN when there is no sign (0 * inf, 0 / 0) *)
Inf(s) == IF s = 0 THEN NaN ELSE [num |-> s, den |-> 0]

(* + - * / of floats: NaN spreads, inf - inf, 0 * inf, 0 / 0 and inf / inf
   are NaN, x / 0 is an infinity (numpy warns and does not raise) *)
RAdd(x, y) ==
    IF x = NaN \/ y = NaN THEN NaN
    ELSE IF x.den = 0 THEN (IF y.den = 0 /\ y # x THEN NaN ELSE x)
    ELSE IF y.den = 0 THEN y
    ELSE Rat(x.num * y.den + y.num * x.den, x.den * y.den)
RNeg(x) == IF x = NaN THEN NaN ELSE [num |-> -x.num, den |-> x.den]
RSub(x, y) ==
    IF x = NaN \/ y = NaN THEN NaN
    ELSE IF x.den = 0 \/ y.den = 0 THEN RAdd(x, RNeg(y))
    ELSE Rat(x.num * y.den - y.num * x.den, x.den * y.den)
RMul(x, y) ==
    IF x = NaN \/ y = NaN THEN NaN
    ELSE IF x.den = 0 \/ y.den = 0 THEN Inf(Sign(x.num) * Sign(y.num))
    ELSE Rat(x.num * y.num, x.den * y.den)
RDiv(x, y) ==
    IF x = NaN \/ y = NaN THEN NaN
    ELSE IF y.den = 0 THEN (IF x.den = 0 THEN NaN ELSE Num(0))
    ELSE IF y.num = 0 THEN Inf(Sign(x.num))
    ELSE IF x.den = 0 THEN Inf(Sign(x.num) * Sign(y.num))
    ELSE Rat(Sign(y.num) * x.num * y.den, x.den * Abs(y.num))
RSq(x) == RMul(x, x)

(* x > y on floats: false whenever one of them is NaN *)
Gt(x, y) ==
    IF x = NaN \/ y = NaN THEN FALSE
    ELSE IF x.den = 0 /\ y.den = 0 THEN x.num > y.num
    ELSE x.num * y.den > y.num * x.den

Ge(x, y) == x # NaN /\ y # NaN /\ (x = y \/ Gt(x, y))

(* np.sqrt(x), kept symbolic *)
Sqrt(x) == [sqrt_of |-> x]

(* Python's None *)
None == [none |-> TRUE]
NoModel == "None"

(* np.log(x), to one decimal: -inf at 0 and NaN below 0 (numpy warns and
   does not raise) *)
LogTenths == <<0, 7, 11, 14, 16, 18, 19, 21>>
LargeLogTenths == (101 :> 46) @@ (201 :> 53) @@ (401 :> 60)
Log(x) ==
    IF x < 0 THEN NaN
    ELSE IF x = 0 THEN NegInf
    ELSE IF x \in DOMAIN LogTenths THEN Rat(LogTenths[x], 10)
    ELSE Rat(LargeLogTenths[x], 10)

RECURSIVE SumSeq(_)
SumSeq(s) == IF s = <<>> THEN Num(0) ELSE RAdd(Head(s), SumSeq(Tail(s)))

----------------------------------------------------------------------------
(* The model catalog *)

linear(n, p) == RAdd(RMul(p[1], Num(n)), p[2])

quadratic(n, p) ==
    RAdd(RAdd(RMul(p[1], Num(n * n)), RMul(p[2], Num(n))), p[3])

(* the argument of the logarithm without the offset *)
LogArgNoOffset(n) == n

(* n + 1, the argument of np.log in nlogn and logarithmic *)
LogArg(n) == n + 1

nlogn(n, p) == RAdd(RMul(RMul(p[1], Num(n)), Log(LogArg(n))), p[2])

logarithmic(n, p) == RAdd(RMul(p[1], Log(LogArg(n))), p[2])

MODELS == <<
    [name |-> "O(n)",       func |-> "linear",      param_names |-> <<"a", "b">>],
    [name |-> "O(n^2)",     func |-> "quadratic",   param_names |-> <<"a", "b", "c">>],
    [name |-> "O(n log n)", func |-> "nlogn",       param_names |-> <<"a", "b">>],
    [name |-> "O(log n)",   func |-> "logarithmic", param_names |-> <<"a", "b">> ] >>

ModelNames == {MODELS[i].name : i \in 1..Len(MODELS)}

(* position of a model in the catalog's declared order *)
CatalogIndex(name) == CHOOSE i \in 1..Len(MODELS) : MODELS[i].name = name

NumParams(name) == Len(MODELS[CatalogIndex(name)].param_names)

(* model_func(n, *popt) for one size *)
Apply(func, n, p) ==
    CASE func = "linear" -> linear(n, p)
      [] func = "quadratic" -> quadratic(n, p)
      [] func = "nlogn" -> nlogn(n, p)
      [] func = "logarithmic" -> logarithmic(n, p)

----------------------------------------------------------------------------
(* fit_complexity_models *)

(* numpy broadcasting of two one-dimensional arrays *)
Broadcastable(lx, ly) == lx = ly \/ lx = 1 \/ ly = 1
BroadcastLen(lx, ly) == IF lx = 1 THEN ly ELSE lx
At(s, i) == IF Len(s) = 1 THEN s[1] ELSE s[i]

Raise(e) == [exc |-> e, popt |-> <<>>]
Return(p) == [exc |-> "none", popt |-> p]

(* initial guesses taken from the parameters of an earlier fit of the model *)
InitialGuessFromLastFit(model) ==
    IF \E c \in calls : c.args.func = model.func /\ c.answer.exc = "none"
    THEN (CHOOSE c \in calls :
            c.args.func = model.func /\ c.answer.exc = "none").answer.popt
    ELSE [j \in 1..Len(model.param_names) |-> Num(1)]

(* p0 = [1.0] * len(param_names) *)
InitialGuess(model) == [j \in 1..Len(model.param_names) |-> Num(1)]

MaxFev == 10000

(* the arguments of the call of curve_fit for a model *)
CallArgs(model, n, t) ==
    [func |-> model.func, xdata |-> n, ydata |-> t,
     p0 |-> InitialGuess(model), maxfev |-> MaxFev]

(* curve_fit(model_func, n_values, time_values, p0=p0, maxfev=10000):
   ValueError for empty ydata and for arrays that do not broadcast, TypeError
   for fewer residuals than parameters, else the solver's answer: a
   parameter vector, or RuntimeError once the maxfev evaluations are used
   up. *)
curve_fit(model, n, t, answer) ==
    IF Len(t) = 0 THEN Raise("ValueError")
    ELSE IF ~Broadcastable(Len(n), Len(t)) THEN Raise("ValueError")
    ELSE IF BroadcastLen(Len(n), Len(t)) < Len(model.param_names)
         THEN Raise("TypeError")
    ELSE answer

(* the k-th unit vector and the zero vector of a model's parameters *)
UnitParams(model, k) ==
    [j \in 1..Len(model.param_names) |-> IF j = k THEN Num(1) ELSE Num(0)]
ZeroParams(model) == [j \in 1..Len(model.param_names) |-> Num(0)]

(* every catalog model is linear in its parameters: the function that
   multiplies parameter k, at size n *)
Basis(model, k, n) ==
    RSub(Apply(model.func, n, UnitParams(model, k)),
         Apply(model.func, n, ZeroParams(model)))

(* curve_fit converged: popt minimises the sum of squared residuals, that
   is, the residuals are orthogonal to every basis function *)
LeastSquares(model, n, t, answer) ==
    /\ answer.exc = "none"
    /\ \A k \in 1..Len(model.param_names) :
          SumSeq([i \in 1..Len(n) |->
                    RMul(RSub(t[i], Apply(model.func, n[i], answer.popt)),
                         Basis(model, k, n[i]))]) = Num(0)

(* predictions = model_func(n_values, *popt) *)
Predictions(model, n, popt) == [i \in 1..Len(n) |-> Apply(model.func, n[i], popt)]

(* np.sum((time_values - predictions) ** 2) *)
SsRes(t, predictions) ==
    LET len == BroadcastLen(Len(t), Len(predictions))
    IN  SumSeq([i \in 1..len |-> RSq(RSub(At(t, i), At(predictions, i)))])

(* np.mean(time_values) *)
Mean(t) == RDiv(SumSeq(t), Num(Len(t)))

(* np.sum((time_values - np.mean(time_values)) ** 2) *)
SsTot(t) == SumSeq([i \in 1..Len(t) |-> RSq(RSub(t[i], Mean(t)))])

(* the score with "else 1" for a constant series *)
RSquaredElseOne(ss_res, ss_tot) ==
    IF Gt(ss_tot, Num(0)) THEN RSub(Num(1), RDiv(ss_res, ss_tot)) ELSE Num(1)

(* r_squared = 1 - (ss_res / ss_tot) if ss_tot > 0 else 0 *)
RSquared(ss_res, ss_tot) ==
    IF Gt(ss_tot, Num(0)) THEN RSub(Num(1), RDiv(ss_res, ss_tot)) ELSE Num(0)

(* rmse = np.sqrt(np.mean((time_values - predictions) ** 2)) *)
Rmse(t, predictions) ==
    Sqrt(RDiv(SsRes(t, predictions),
              Num(BroadcastLen(Len(t), Len(predictions)))))

(* the dictionary stored for a model whose fit returned popt *)
FitResult(model, n, t, popt) ==
    LET predictions == Predictions(model, n, popt)
    IN  [params      |-> [i \in 1..Len(model.param_names) |->
                             <<model.param_names[i], popt[i]>>],
         r_squared   |-> RSquared(SsRes(t, predictions), SsTot(t)),
         rmse        |-> Rmse(t, predictions),
         predictions |-> predictions,
         model_func  |-> model.func,
         popt        |-> popt]

(* a handler that stores a result with no parameters and a zero score *)
ExceptStoresZeroScore(model, e) ==
    [params |-> <<>>, r_squared |-> Num(0), rmse |-> Sqrt(Num(0)),
     predictions |-> <<>>, model_func |-> model.func, popt |-> <<>>]

(* except Exception as e: results[model_name] = None *)
ExceptException(model, e) == None

(* one pass of the loop body: the try block and its handler *)
TryFit(model, n, t, fitted) ==
    IF fitted.exc # "none" THEN ExceptException(model, fitted.exc)
    ELSE FitResult(model, n, t, fitted.popt)

(* the try block put around the whole loop: the first exception ends it *)
FitTryAroundLoop(n, t, fitted) ==
    LET failing == {i \in 1..Len(MODELS) : fitted[i].exc # "none"}
        last == IF failing = {} THEN Len(MODELS)
                ELSE CHOOSE i \in failing : \A j \in failing : i <= j
    IN  [i \in 1..last |->
            [key |-> MODELS[i].name, value |-> TryFit(MODELS[i], n, t, fitted[i])]]

(* results, an insertion-ordered dict: one entry per catalog model, in
   catalog order; fitted[i] is what curve_fit did for MODELS[i] *)
fit_complexity_models(n, t, fitted) ==
    [i \in 1..Len(MODELS) |->
        [key |-> MODELS[i].name, value |-> TryFit(MODELS[i], n, t, fitted[i])]]

----------------------------------------------------------------------------
(* determine_best_model *)

(* a selection that starts from the first catalog model instead of None *)
InitialBestDefault == [best_model |-> MODELS[1].name, best_r2 |-> NegInf]

(* best_model = None; best_r2 = -np.inf *)
InitialBest == [best_model |-> NoModel, best_r2 |-> NegInf]

(* the comparison written with < *)
ImprovesLess(result, r2) == result # None /\ Gt(r2, result.r_squared)

(* the comparison written with >= *)
ImprovesGe(result, r2) == result # None /\ Ge(result.r_squared, r2)

(* if result is not None and result['r_squared'] > best_r2 *)
Improves(result, r2) == result # None /\ Gt(result.r_squared, r2)

(* the loop over fit_results.items(), from entry i on *)
RECURSIVE BestFrom(_, _, _)
BestFrom(items, i, best) ==
    IF i > Len(items) THEN best
    ELSE IF Improves(items[i].value, best.best_r2)
         THEN BestFrom(items, i + 1,
                       [best_model |-> items[i].key,
                        best_r2 |-> items[i].value.r_squared])
         ELSE BestFrom(items, i + 1, best)

(* a selection that takes, among the non-failed models sharing the greatest
   R2, one with the fewest parameters, and the earliest of those *)
SelectFewestParameters(items) ==
    LET ok == {i \in 1..Len(items) : items[i].value # None}
        top == {i \in ok : \A j \in ok :
                   Ge(items[i].value.r_squared, items[j].value.r_squared)}
        pick == CHOOSE i \in top : \A j \in top :
                   \/ NumParams(items[i].key) < NumParams(items[j].key)
                   \/ /\ NumParams(items[i].key) = NumParams(items[j].key)
                      /\ i <= j
    IN  IF ok = {} THEN InitialBest
        ELSE [best_model |-> items[pick].key,
              best_r2 |-> items[pick].value.r_squared]

determine_best_model(items) == BestFrom(items, 1, InitialBest)

----------------------------------------------------------------------------
(* Specification SpecSelect: determine_best_model applied to every mapping
   of the catalog models to a result or None *)

R2Values == {Rat(i, 2) : i \in (-MaxR2)..2}

Scored(r) == [r_squared |-> r]

Mappings ==
    {[i \in 1..Len(MODELS) |-> [key |-> MODELS[i].name, value |-> v[i]]] :
        v \in [1..Len(MODELS) -> {None} \cup {Scored(r) : r \in R2Values}]}

Idle ==
    /\ df = <<>> /\ avg_df = <<>> /\ todo = <<>>
    /\ analysis_results = <<>> /\ report = <<>> /\ console = <<>>
    /\ plotted = <<>> /\ calls = {} /\ previous = <<>> /\ evaluated = <<>>
    /\ next_model = 1 /\ attempts = <<>>
    /\ raised = "none"

InitSelect ==
    /\ pc = "select"
    /\ fit_results \in Mappings
    /\ n_values = <<>> /\ time_values = <<>> /\ solver = <<>>
    /\ best_model = NoModel /\ best_r2 = NegInf
    /\ Idle

Select ==
    /\ pc = "select"
    /\ LET best == determine_best_model(fit_results)
       IN  /\ best_model' = best.best_model
           /\ best_r2' = best.best_r2
    /\ pc' = "selected"
    /\ UNCHANGED <<df, avg_df, todo, n_values, time_values, solver,
                   fit_results, analysis_results, report, console, plotted,
                   calls, previous, evaluated, raised,
                   next_model, attempts>>

NextSelect == Select

SpecSelect == InitSelect /\ [][NextSelect]_vars

----------------------------------------------------------------------------
(* Properties of determine_best_model (SpecSelect) *)

(* entries of fit_results whose fit did not fail *)
Succeeded == {i \in 1..Len(fit_results) : fit_results[i].value # None}

R2Of(i) == fit_results[i].value.r_squared

(* non-failed entries whose R2 is maximal among the non-failed entries *)
MaxTied == {i \in Succeeded : \A j \in Succeeded : Ge(R2Of(i), R2Of(j))}

Earliest(S) == CHOOSE i \in S : \A j \in S : i <= j

(* C1: when at least one fit succeeded, the selected model is a non-failed
   model whose R2 is at least the R2 of every other non-failed model; a
   failed entry is never selected. *)
C1_SelectsMaximalNonFailed ==
    (pc = "selected" /\ Succeeded # {}) =>
        \E i \in Succeeded :
            /\ fit_results[i].key = best_model
            /\ best_r2 = R2Of(i)
            /\ \A j \in Succeeded : Ge(R2Of(i), R2Of(j))

C1_Witness ==
    /\ pc = "selected"
    /\ fit_results[1].value = None
    /\ fit_results[3].value = None
    /\ 2 \in Succeeded /\ 4 \in Succeeded
    /\ Gt(R2Of(4), R2Of(2))
    /\ best_model = "O(log n)"

(* C2: when several non-failed models share the maximal R2, the selected
   model has the fewest free parameters among them. *)
C2_TieBreakFewestParameters ==
    (pc = "selected" /\ best_model # NoModel) =>
        \A i \in MaxTied : NumParams(best_model) <= NumParams(fit_results[i].key)

(* C3: when the non-failed models sharing the maximal R2 all have the same
   number of free parameters, the selected model is the earliest of them in
   catalog order. *)
C3_TieBreakCatalogOrder ==
    (/\ pc = "selected"
     /\ MaxTied # {}
     /\ \A i, j \in MaxTied :
            NumParams(fit_results[i].key) = NumParams(fit_results[j].key)) =>
        best_model = MODELS[Earliest(MaxTied)].name

C3_Witness ==
    /\ pc = "selected"
    /\ Succeeded = 1..Len(MODELS)
    /\ MaxTied = {3, 4}
    /\ best_model = "O(n log n)"

(* C4: when every entry is the failure marker, no model is selected: the
   result is (None, -inf) and nothing is raised. *)
C4_AllFailedSelectsNone ==
    (pc = "selected" /\ Succeeded = {}) =>
        /\ best_model = NoModel
        /\ best_r2 = NegInf
        /\ raised = "none"

C4_Witness ==
    /\ pc = "selected"
    /\ Succeeded = {}
    /\ best_model = NoModel

----------------------------------------------------------------------------
(* Specification SpecFit: fit_complexity_models applied to every pair of a
   size vector and a time vector, equal in length or not *)

RECURSIVE SeqsUpTo(_, _)
SeqsUpTo(S, k) ==
    IF k = 0 THEN {<<>>}
    ELSE LET shorter == SeqsUpTo(S, k - 1)
         IN  shorter \cup {Append(s, x) : s \in {q \in shorter : Len(q) = k - 1}, x \in S}

(* a size vector is in ascending order, as sort_values leaves it *)
Ascending(s) == \A i \in 1..(Len(s) - 1) : s[i] <= s[i + 1]

InitFit ==
    /\ pc = "fit"
    /\ n_values \in {s \in SeqsUpTo(SizeValues, MaxLen) : Ascending(s)}
    /\ time_values \in SeqsUpTo({Num(t) : t \in TimeValues}, MaxLen)
    /\ solver = <<>> /\ fit_results = <<>>
    /\ best_model = NoModel /\ best_r2 = NegInf
    /\ Idle

(* The solver's answers for the catalog, one per model: the models in
   nonconv use up their evaluations, the others get the leading parameters
   of one vector p. *)
SolverAnswersFor(nonconv, p) ==
    [i \in 1..Len(MODELS) |->
        IF MODELS[i].name \in nonconv THEN Raise("RuntimeError")
        ELSE Return([j \in 1..Len(MODELS[i].param_names) |-> Num(p[j])])]

LongestParams == CHOOSE k \in {Len(MODELS[i].param_names) : i \in 1..Len(MODELS)} :
                    \A i \in 1..Len(MODELS) : Len(MODELS[i].param_names) <= k

(* what curve_fit does for each catalog model on (n, t) *)
SolverRuns(n, t) ==
    {[i \in 1..Len(MODELS) |->
         curve_fit(MODELS[i], n, t, SolverAnswersFor(nonconv, p)[i])] :
        nonconv \in SUBSET ModelNames, p \in [1..LongestParams -> ParamValues]}

Fit ==
    /\ pc = "fit"
    /\ \E fitted \in SolverRuns(n_values, time_values) :
          /\ solver' = fitted
          /\ fit_results' = fit_complexity_models(n_values, time_values, fitted)
    /\ pc' = "fitted"
    /\ UNCHANGED <<df, avg_df, todo, n_values, time_values, best_model,
                   best_r2, analysis_results, report, console, plotted, calls,
                   previous, evaluated, raised,
                   next_model, attempts>>

NextFit == Fit

SpecFit == InitFit /\ [][NextFit]_vars

----------------------------------------------------------------------------
(* load_data *)

(* the methods, in the order pandas sorts their names *)
MethodNames == <<"A", "B">>
MethodRank(m) == CHOOSE i \in 1..Len(MethodNames) : MethodNames[i] = m

(* the group keys ['method', 'percentage', 'num_instances'] of a row *)
KeyOf(r) == <<MethodRank(r.method), r.percentage, r.num_instances>>

(* lexicographic order of group keys: groupby sorts its groups *)
KeyLess(a, b) ==
    \/ a[1] < b[1]
    \/ a[1] = b[1] /\ a[2] < b[2]
    \/ a[1] = b[1] /\ a[2] = b[2] /\ a[3] < b[3]

RECURSIVE SortedKeys(_)
SortedKeys(K) ==
    IF K = {} THEN <<>>
    ELSE LET k == CHOOSE x \in K : \A y \in K \ {x} : KeyLess(x, y)
         IN  <<k>> \o SortedKeys(K \ {k})

(* the time_ms values of the rows of one group, in row order *)
GroupTimes(rows, key) ==
    SelectSeq([i \in 1..Len(rows) |->
                  IF KeyOf(rows[i]) = key THEN Num(rows[i].time_ms) ELSE NaN],
              LAMBDA x : x # NaN)

(* 'std': the sample standard deviation (ddof = 1), NaN for one value *)
Std(ts) ==
    IF Len(ts) < 2 THEN NaN
    ELSE Sqrt(RDiv(SsTot(ts), Num(Len(ts) - 1)))

Least(ts) == CHOOSE x \in {ts[i] : i \in 1..Len(ts)} :
                \A i \in 1..Len(ts) : ~Gt(x, ts[i])
Greatest(ts) == CHOOSE x \in {ts[i] : i \in 1..Len(ts)} :
                   \A i \in 1..Len(ts) : ~Gt(ts[i], x)

(* avg_df: one row per group, groups in sorted order *)
load_data(rows) ==
    LET keys == SortedKeys({KeyOf(rows[i]) : i \in 1..Len(rows)})
    IN  [g \in 1..Len(keys) |->
            LET ts == GroupTimes(rows, keys[g])
            IN  [method        |-> MethodNames[keys[g][1]],
                 percentage    |-> keys[g][2],
                 num_instances |-> keys[g][3],
                 avg_time_ms   |-> Mean(ts),
                 std_time_ms   |-> Std(ts),
                 min_time_ms   |-> Least(ts),
                 max_time_ms   |-> Greatest(ts)]]

----------------------------------------------------------------------------
(* plot_individual_methods *)

(* avg_df['method'].unique(): the methods in order of first appearance *)
RECURSIVE Unique(_)
Unique(s) ==
    IF s = <<>> THEN <<>>
    ELSE LET rest == Unique(SelectSeq(Tail(s), LAMBDA x : x # Head(s)))
         IN  <<Head(s)>> \o rest

Methods(avg) == Unique([i \in 1..Len(avg) |-> avg[i].method])

(* insertion of a row into rows sorted by num_instances, after its equals *)
RECURSIVE InsertBySize(_, _)
InsertBySize(sorted, r) ==
    IF sorted = <<>> THEN <<r>>
    ELSE IF r.num_instances < Head(sorted).num_instances THEN <<r>> \o sorted
    ELSE <<Head(sorted)>> \o InsertBySize(Tail(sorted), r)

RECURSIVE SortBySize(_)
SortBySize(rows) ==
    IF rows = <<>> THEN <<>>
    ELSE InsertBySize(SortBySize(SubSeq(rows, 1, Len(rows) - 1)), rows[Len(rows)])

(* the rows of the method left in the order of avg_df *)
MethodDataUnsorted(avg, method) == SelectSeq(avg, LAMBDA r : r.method = method)

(* the rows of every method, sorted by size *)
MethodDataAllMethods(avg, method) == SortBySize(avg)

(* avg_df[avg_df['method'] == method].sort_values('num_instances') *)
MethodData(avg, method) == SortBySize(SelectSeq(avg, LAMBDA r : r.method = method))

Column(rows, name) == [i \in 1..Len(rows) |-> rows[i][name]]

MsPerSecond == 1000

(* x / 1000.0: milliseconds to seconds *)
Seconds(x) == RDiv(x, Num(MsPerSecond))

(* the times of the call converted to seconds first *)
FitTimesInSeconds(data) == [i \in 1..Len(data) |-> Seconds(data[i].avg_time_ms)]

(* method_data['avg_time_ms'].values, the second argument of the call of
   fit_complexity_models: milliseconds *)
FitTimes(data) == Column(data, "avg_time_ms")

(* ax.plot(n_values, time_values, ...): the measured points, with
   time_values = method_data['avg_time_ms'].values / 1000.0 *)
Measured(data) ==
    [i \in 1..Len(data) |->
        [n |-> data[i].num_instances, seconds |-> Seconds(data[i].avg_time_ms)]]

(* n_smooth = np.linspace(n_values.min(), n_values.max(), 100): its first
   and its last point *)
Smooth(n) == <<n[1], n[Len(n)]>>

(* the fitted curves drawn: one per model whose result is not None, the
   model evaluated on n_smooth and divided by 1000.0 *)
Curves(n, results) ==
    LET drawn == SelectSeq(results, LAMBDA e : e.value # None)
    IN  [k \in 1..Len(drawn) |->
            [model |-> drawn[k].key,
             seconds |-> [j \in 1..Len(Smooth(n)) |->
                            Seconds(Apply(drawn[k].value.model_func, Smooth(n)[j],
                                          drawn[k].value.popt))]]]

(* value of a key of an insertion-ordered dict, None when absent: dict.get *)
Get(items, key) ==
    IF \E i \in 1..Len(items) : items[i].key = key
    THEN items[CHOOSE i \in 1..Len(items) : items[i].key = key].value
    ELSE None

(* one pass of the loop over the methods: the series of the method, its fits
   (on avg_time_ms, in milliseconds) and its best model *)
Analyse(avg, method, fitted) ==
    LET data == MethodData(avg, method)
        results == fit_complexity_models(Column(data, "num_instances"),
                                         FitTimes(data), fitted)
        best == determine_best_model(results)
    IN  [fit_results |-> results,
         best_model  |-> best.best_model,
         best_r2     |-> best.best_r2]

----------------------------------------------------------------------------
(* generate_summary_report and the complexity summary of main *)

(* f"{x:.<d>f}" of a float: d decimals, rounded; -inf prints as "-inf" *)
Format(x, d) ==
    IF x = NegInf THEN [text |-> "-inf", scaled |-> 0, decimals |-> d]
    ELSE [text |-> "number",
          scaled |-> (2 * x.num * 10^d + x.den) \div (2 * x.den),
          decimals |-> d]

(* "Method / Best fit model / R2 score / Parameters" of one method; the
   parameters are written only if fit_results.get(best_model) is truthy *)
BestFitLines(method, results) ==
    [method     |-> method,
     best_model |-> results.best_model,
     r2         |-> Format(results.best_r2, 4),
     params     |-> IF Get(results.fit_results, results.best_model) # None
                    THEN Get(results.fit_results, results.best_model).params
                    ELSE None]

(* the detailed comparison of one method: the models whose fit is not None,
   in the order of fit_results *)
DetailLines(method, results) ==
    [method |-> method,
     models |-> LET fitted == SelectSeq(results.fit_results,
                                        LAMBDA e : e.value # None)
                IN  [i \in 1..Len(fitted) |->
                        [model |-> fitted[i].key,
                         r2    |-> Format(fitted[i].value.r_squared, 4),
                         rmse  |-> fitted[i].value.rmse]]]

generate_summary_report(analysis) ==
    [best   |-> [i \in 1..Len(analysis) |->
                    BestFitLines(analysis[i].key, analysis[i].value)],
     detail |-> [i \in 1..Len(analysis) |->
                    DetailLines(analysis[i].key, analysis[i].value)]]

(* f"{complexity:12s}" raises TypeError for None *)
FormatRaises(complexity) == complexity = NoModel

(* f"  {method:25s} -> {complexity:12s} (R2 = {r2:.3f})" *)
SummaryLine(method, results) ==
    [method |-> method, complexity |-> results.best_model,
     r2 |-> Format(results.best_r2, 3)]

(* the methods whose line is printed before the loop ends or raises *)
Printed(analysis) ==
    IF \E i \in 1..Len(analysis) : FormatRaises(analysis[i].value.best_model)
    THEN (CHOOSE i \in 1..Len(analysis) :
            /\ FormatRaises(analysis[i].value.best_model)
            /\ \A j \in 1..(i - 1) : ~FormatRaises(analysis[j].value.best_model)) - 1
    ELSE Len(analysis)

----------------------------------------------------------------------------
(* Specification Spec: one run of main() on a benchmark file *)

RunSizes == {1, 2}

(* a percentage of the dataset has one number of instances *)
BenchmarkRows ==
    {[method |-> m, percentage |-> 10 * n, num_instances |-> n, time_ms |-> t] :
        m \in {MethodNames[i] : i \in 1..Len(MethodNames)},
        n \in RunSizes, t \in TimeValues}

(* one listing per collection of rows: by time, then method and size
   descending *)
RowBefore(a, b) ==
    \/ a.time_ms < b.time_ms
    \/ a.time_ms = b.time_ms /\ MethodRank(a.method) > MethodRank(b.method)
    \/ /\ a.time_ms = b.time_ms /\ a.method = b.method
       /\ a.num_instances >= b.num_instances

Tables ==
    {s \in SeqsUpTo(BenchmarkRows, MaxObs) :
        \A i \in 1..(Len(s) - 1) : RowBefore(s[i], s[i + 1])}

Init ==
    /\ pc = "start"
    /\ df \in Tables
    /\ avg_df = <<>> /\ todo = <<>>
    /\ n_values = <<>> /\ time_values = <<>> /\ solver = <<>>
    /\ fit_results = <<>> /\ best_model = NoModel /\ best_r2 = NegInf
    /\ analysis_results = <<>> /\ report = <<>> /\ console = <<>>
    /\ plotted = <<>> /\ calls = {} /\ previous = <<>> /\ evaluated = <<>>
    /\ next_model = 1 /\ attempts = <<>>
    /\ raised = "none"

(* df, avg_df = load_data(results_csv) *)
LoadData ==
    /\ pc = "start"
    /\ avg_df' = load_data(df)
    /\ pc' = "loaded"
    /\ UNCHANGED <<df, todo, n_values, time_values, solver, fit_results,
                   best_model, best_r2, analysis_results, report, console,
                   plotted, calls, previous, evaluated, raised,
                   next_model, attempts>>

(* plot_individual_methods: methods = avg_df['method'].unique() *)
StartMethods ==
    /\ pc = "loaded"
    /\ todo' = Methods(avg_df)
    /\ analysis_results' = <<>>
    /\ pc' = "methods"
    /\ UNCHANGED <<df, avg_df, n_values, time_values, solver, fit_results,
                   best_model, best_r2, report, console, plotted, calls,
                   previous, evaluated, raised,
                   next_model, attempts>>

(* plot_individual_methods: one pass of "for method in methods", fitted
   being what curve_fit does for each catalog model in this pass *)
AnalyseWith(fitted) ==
    \E method \in {Head(todo)} :
    \E data \in {MethodData(avg_df, method)} :
    \E n \in {Column(data, "num_instances")} :
    \E a \in {Analyse(avg_df, method, fitted)} :
        /\ n_values' = n
        /\ time_values' = FitTimes(data)
        /\ solver' = fitted
        /\ fit_results' = a.fit_results
        /\ best_model' = a.best_model
        /\ best_r2' = a.best_r2
        /\ analysis_results' =
              Append(analysis_results, [key |-> method, value |-> a])
        /\ plotted' = [measured |-> Measured(data),
                       curves |-> Curves(n, a.fit_results)]
        /\ todo' = Tail(todo)
        /\ UNCHANGED <<pc, df, avg_df, report, console, previous, evaluated,
                       raised,
                       next_model, attempts>>

(* the two vectors of the call of fit_complexity_models for a method *)
SeriesSizes(method) == Column(MethodData(avg_df, method), "num_instances")
SeriesTimes(method) == FitTimes(MethodData(avg_df, method))

(* one pass of the loop, curve_fit answering in any of the ways it can *)
AnalyseMethod ==
    /\ pc = "methods"
    /\ todo # <<>>
    /\ \E fitted \in SolverRuns(SeriesSizes(Head(todo)), SeriesTimes(Head(todo))) :
          AnalyseWith(fitted)
    /\ UNCHANGED calls

(* main, after the plots: generate_summary_report(analysis_results, ...).
   plot_comparison, plot_log_scale, plot_normalized and save_size_time_csv
   run in between; they read avg_df alone and draw or save it. *)
GenerateSummaryReport ==
    /\ pc = "methods"
    /\ todo = <<>>
    /\ report' = generate_summary_report(analysis_results)
    /\ pc' = "summary"
    /\ UNCHANGED <<df, avg_df, todo, n_values, time_values, solver,
                   fit_results, best_model, best_r2, analysis_results,
                   console, plotted, calls, previous, evaluated, raised,
                   next_model, attempts>>

(* main: "for method, results in analysis_results.items(): print(...)" *)
PrintSummary ==
    /\ pc = "summary"
    /\ LET k == Printed(analysis_results)
       IN  /\ console' = [i \in 1..k |->
                            SummaryLine(analysis_results[i].key,
                                        analysis_results[i].value)]
           /\ raised' = IF k < Len(analysis_results) THEN "TypeError" ELSE "none"
           /\ pc' = IF k < Len(analysis_results) THEN "crashed" ELSE "done"
    /\ UNCHANGED <<df, avg_df, todo, n_values, time_values, solver,
                   fit_results, best_model, best_r2, analysis_results, report,
                   plotted, calls, previous, evaluated,
                   next_model, attempts>>

Next ==
    \/ LoadData
    \/ StartMethods
    \/ AnalyseMethod
    \/ GenerateSummaryReport
    \/ PrintSummary

Spec == Init /\ [][Next]_vars

----------------------------------------------------------------------------
(* Specification SpecLoad: load_data and the series of each method, on
   every listing of rows whose percentage and size vary independently *)

Percentages == {10, 20}

(* the rows of a results CSV: method, percentage, num_instances, time_ms *)
CsvRows ==
    {[method |-> m, percentage |-> p, num_instances |-> n, time_ms |-> t] :
        m \in {MethodNames[i] : i \in 1..Len(MethodNames)},
        p \in Percentages, n \in RunSizes, t \in TimeValues}

InitLoad ==
    /\ pc = "start"
    /\ df \in SeqsUpTo(CsvRows, MaxObs)
    /\ avg_df = <<>> /\ todo = <<>>
    /\ n_values = <<>> /\ time_values = <<>> /\ solver = <<>>
    /\ fit_results = <<>> /\ best_model = NoModel /\ best_r2 = NegInf
    /\ analysis_results = <<>> /\ report = <<>> /\ console = <<>>
    /\ plotted = <<>> /\ calls = {} /\ previous = <<>> /\ evaluated = <<>>
    /\ next_model = 1 /\ attempts = <<>>
    /\ raised = "none"

(* plot_individual_methods, one pass of "for method in methods" up to the
   call of fit_complexity_models: the rows of the method sorted by size and
   the two vectors that are the arguments of the call *)
SortMethodData ==
    /\ pc = "methods"
    /\ todo # <<>>
    /\ LET data == MethodData(avg_df, Head(todo))
       IN  /\ n_values' = Column(data, "num_instances")
           /\ time_values' = FitTimes(data)
           /\ plotted' = [measured |-> Measured(data), curves |-> <<>>]
    /\ todo' = Tail(todo)
    /\ UNCHANGED <<pc, df, avg_df, solver, fit_results, best_model, best_r2,
                   analysis_results, report, console, calls, previous,
                   evaluated, raised,
                   next_model, attempts>>

NextLoad ==
    \/ LoadData
    \/ StartMethods
    \/ SortMethodData

SpecLoad == InitLoad /\ [][NextLoad]_vars

----------------------------------------------------------------------------
(* Specification SpecScenario: one run of main() on the six observations
   (A,100,10), (A,100,12), (A,200,20), (A,200,22), (A,400,41), (A,400,39) *)

ScenarioRows == <<
    [method |-> "A", percentage |-> 10, num_instances |-> 100, time_ms |-> 10],
    [method |-> "A", percentage |-> 10, num_instances |-> 100, time_ms |-> 12],
    [method |-> "A", percentage |-> 20, num_instances |-> 200, time_ms |-> 20],
    [method |-> "A", percentage |-> 20, num_instances |-> 200, time_ms |-> 22],
    [method |-> "A", percentage |-> 40, num_instances |-> 400, time_ms |-> 41],
    [method |-> "A", percentage |-> 40, num_instances |-> 400, time_ms |-> 39] >>

Reverse(s) == [i \in 1..Len(s) |-> s[Len(s) + 1 - i]]

InitScenario ==
    /\ pc = "start"
    /\ df \in {ScenarioRows, Reverse(ScenarioRows)}
    /\ avg_df = <<>> /\ todo = <<>>
    /\ n_values = <<>> /\ time_values = <<>> /\ solver = <<>>
    /\ fit_results = <<>> /\ best_model = NoModel /\ best_r2 = NegInf
    /\ analysis_results = <<>> /\ report = <<>> /\ console = <<>>
    /\ plotted = <<>> /\ calls = {} /\ previous = <<>> /\ evaluated = <<>>
    /\ next_model = 1 /\ attempts = <<>>
    /\ raised = "none"

(* parameter vectors curve_fit may return for each catalog model on the
   scenario: for O(n) and O(n^2) the least-squares parameters and a vector
   near them, for the logarithmic models two vectors *)
ScenarioParams == <<
    {<<Rat(27, 280), Rat(3, 2)>>, <<Rat(1, 10), Num(1)>>},
    {<<Rat(-1, 60000), Rat(21, 200), Rat(2, 3)>>, <<Num(0), Rat(1, 10), Num(1)>>},
    {<<Rat(1, 60), Num(3)>>, <<Num(0), Num(24)>>},
    {<<Num(20), Num(-83)>>, <<Num(0), Num(24)>>} >>

ScenarioAnswers(i) ==
    {Raise("RuntimeError")} \cup {Return(p) : p \in ScenarioParams[i]}

ScenarioRuns(n, t) ==
    {[i \in 1..Len(MODELS) |-> curve_fit(MODELS[i], n, t, a[i])] :
        a \in {f \in [1..Len(MODELS) ->
                        UNION {ScenarioAnswers(i) : i \in 1..Len(MODELS)}] :
                 \A i \in 1..Len(MODELS) : f[i] \in ScenarioAnswers(i)}}

AnalyseScenario ==
    /\ pc = "methods"
    /\ todo # <<>>
    /\ \E fitted \in ScenarioRuns(SeriesSizes(Head(todo)), SeriesTimes(Head(todo))) :
          AnalyseWith(fitted)
    /\ UNCHANGED calls

NextScenario ==
    \/ LoadData
    \/ StartMethods
    \/ AnalyseScenario
    \/ GenerateSummaryReport
    \/ PrintSummary

SpecScenario == InitScenario /\ [][NextScenario]_vars

----------------------------------------------------------------------------
(* Specification SpecRerun: the pipeline run twice on one table.  curve_fit
   is a function of its arguments: a call that repeats the arguments of a
   recorded call has the recorded outcome. *)

InitRerun ==
    /\ pc = "start"
    /\ df \in {s \in Tables : Len(s) <= MaxRerunObs}
    /\ avg_df = <<>> /\ todo = <<>>
    /\ n_values = <<>> /\ time_values = <<>> /\ solver = <<>>
    /\ fit_results = <<>> /\ best_model = NoModel /\ best_r2 = NegInf
    /\ analysis_results = <<>> /\ report = <<>> /\ console = <<>>
    /\ plotted = <<>> /\ calls = {} /\ previous = <<>> /\ evaluated = <<>>
    /\ next_model = 1 /\ attempts = <<>>
    /\ raised = "none"

(* the calls of curve_fit of one fit_complexity_models(n, t), as records *)
CallsOf(n, t, fitted) ==
    {[args |-> CallArgs(MODELS[i], n, t), answer |-> fitted[i]] :
        i \in 1..Len(MODELS)}

(* fitted gives every repeated call the outcome recorded for it *)
Repeats(n, t, fitted) ==
    \A i \in 1..Len(MODELS) : \A c \in calls :
        c.args = CallArgs(MODELS[i], n, t) => fitted[i] = c.answer

(* plot_individual_methods: one pass of "for method in methods", its calls
   of curve_fit recorded *)
AnalyseRecorded ==
    /\ pc = "methods"
    /\ todo # <<>>
    /\ \E fitted \in SolverRuns(SeriesSizes(Head(todo)), SeriesTimes(Head(todo))) :
          /\ Repeats(SeriesSizes(Head(todo)), SeriesTimes(Head(todo)), fitted)
          /\ AnalyseWith(fitted)
          /\ calls' = calls \cup CallsOf(SeriesSizes(Head(todo)),
                                         SeriesTimes(Head(todo)), fitted)

(* the first run has ended: its results are kept for the comparison and the
   pipeline is started again on the same table; the locals of the first run
   are gone, the module (MODELS and the functions) stays loaded *)
RunAgain ==
    /\ pc = "methods"
    /\ todo = <<>>
    /\ previous = <<>>
    /\ previous' = <<analysis_results>>
    /\ pc' = "start"
    /\ avg_df' = <<>>
    /\ n_values' = <<>> /\ time_values' = <<>> /\ solver' = <<>>
    /\ fit_results' = <<>> /\ best_model' = NoModel /\ best_r2' = NegInf
    /\ analysis_results' = <<>> /\ plotted' = <<>>
    /\ UNCHANGED <<df, todo, report, console, calls, evaluated, raised,
                   next_model, attempts>>

NextRerun ==
    \/ LoadData
    \/ StartMethods
    \/ AnalyseRecorded
    \/ RunAgain

SpecRerun == InitRerun /\ [][NextRerun]_vars

----------------------------------------------------------------------------
(* Specification SpecEval: one catalog model evaluated at one size n >= 0
   with one parameter vector *)

EvalParamValues == {-1, 0, 1}

(* the catalog functions that call np.log *)
UsesLog(func) == func \in {"nlogn", "logarithmic"}

InitEval ==
    /\ pc = "evaluate"
    /\ \E i \in 1..Len(MODELS), n \in 0..MaxSize :
       \E p \in [1..Len(MODELS[i].param_names) -> EvalParamValues] :
          evaluated = [func |-> MODELS[i].func, n |-> n,
                       popt |-> [j \in 1..Len(p) |-> Num(p[j])],
                       log_arg |-> None, log |-> None, value |-> None]
    /\ df = <<>> /\ avg_df = <<>> /\ todo = <<>>
    /\ n_values = <<>> /\ time_values = <<>> /\ solver = <<>>
    /\ fit_results = <<>> /\ best_model = NoModel /\ best_r2 = NegInf
    /\ analysis_results = <<>> /\ report = <<>> /\ console = <<>>
    /\ plotted = <<>> /\ calls = {} /\ previous = <<>>
    /\ next_model = 1 /\ attempts = <<>>
    /\ raised = "none"

(* model_func(n, *popt): the argument and the value of np.log are kept *)
Evaluate ==
    /\ pc = "evaluate"
    /\ LET func == evaluated.func
           arg == IF UsesLog(func) THEN LogArg(evaluated.n) ELSE None
           log == IF UsesLog(func) THEN Log(LogArg(evaluated.n)) ELSE None
       IN  evaluated' = [evaluated EXCEPT
              !.log_arg = arg,
              !.log = log,
              !.value = Apply(func, evaluated.n, evaluated.popt)]
    /\ pc' = "evaluated"
    /\ UNCHANGED <<df, avg_df, todo, n_values, time_values, solver,
                   fit_results, best_model, best_r2, analysis_results, report,
                   console, plotted, calls, previous, raised,
                   next_model, attempts>>

NextEval == Evaluate

SpecEval == InitEval /\ [][NextEval]_vars

----------------------------------------------------------------------------
(* Specification SpecLoop: the loop of fit_complexity_models taken one
   catalog model at a time, on the size vectors <<1, ..., k>> and every time
   vector, equal in length or not.  The interpreter runs the function to its
   end: a statement that can be executed is executed (weak fairness). *)

MaxAttempts == Len(MODELS) + 2   \* calls of curve_fit followed in one fit

SizePrefixes == {[i \in 1..k |-> i] : k \in 0..MaxLen}

InitLoop ==
    /\ pc = "fit"
    /\ n_values \in SizePrefixes
    /\ time_values \in SeqsUpTo({Num(t) : t \in TimeValues}, MaxLen)
    /\ solver = <<>> /\ fit_results = <<>>
    /\ best_model = NoModel /\ best_r2 = NegInf
    /\ Idle

(* results[key] = value on an insertion-ordered dict: a known key keeps its
   place *)
Put(items, key, value) ==
    IF \E i \in 1..Len(items) : items[i].key = key
    THEN [i \in 1..Len(items) |->
            IF items[i].key = key THEN [key |-> key, value |-> value]
            ELSE items[i]]
    ELSE Append(items, [key |-> key, value |-> value])

(* a loop that stays on a model until its fit succeeds *)
NextEntryRetryFailed(i, result) == IF result = None THEN i ELSE i + 1

(* for model_name, (model_func, param_names) in MODELS.items(): the entry
   after entry i, whatever the body stored for entry i *)
NextEntry(i, result) == i + 1

(* the solver's answer to one call: a parameter vector, or RuntimeError once
   its maxfev function evaluations are used up *)
AttemptAnswers(model) ==
    {Raise("RuntimeError")} \cup
    {Return([j \in 1..Len(model.param_names) |-> Num(v)]) : v \in ParamValues}

(* function evaluations made by one call: none when curve_fit rejects its
   arguments, maxfev when the solver gives up, fewer when it converges *)
Evaluations(args, outcome) ==
    IF outcome.exc \in {"ValueError", "TypeError"} THEN {0}
    ELSE IF outcome.exc = "RuntimeError" THEN {args.maxfev}
    ELSE {1, args.maxfev - 1}

(* one pass of the loop body *)
AttemptModel ==
    /\ pc = "fit"
    /\ next_model <= Len(MODELS)
    /\ Len(attempts) < MaxAttempts
    /\ \E model \in {MODELS[next_model]} :
       \E args \in {CallArgs(model, n_values, time_values)} :
       \E answer \in AttemptAnswers(model) :
       \E outcome \in {curve_fit(model, n_values, time_values, answer)} :
       \E nfev \in Evaluations(args, outcome) :
       \E result \in {TryFit(model, n_values, time_values, outcome)} :
          /\ attempts' = Append(attempts, [args |-> args, nfev |-> nfev,
                                           outcome |-> outcome])
          /\ fit_results' = Put(fit_results, model.name, result)
          /\ next_model' = NextEntry(next_model, result)
    /\ UNCHANGED <<pc, df, avg_df, todo, n_values, time_values, solver,
                   best_model, best_r2, analysis_results, report, console,
                   plotted, calls, previous, evaluated, raised>>

(* return results: the catalog is exhausted *)
ReturnResults ==
    /\ pc = "fit"
    /\ next_model > Len(MODELS)
    /\ pc' = "fitted"
    /\ UNCHANGED <<df, avg_df, todo, n_values, time_values, solver,
                   fit_results, best_model, best_r2, analysis_results, report,
                   console, plotted, calls, previous, evaluated, next_model,
                   attempts, raised>>

NextLoop == AttemptModel \/ ReturnResults

(* what a step of the loop does to the position in the function: the for
   statement moves to the next entry of MODELS.items(), or the function
   returns.  Every step of NextLoop is such a step and one is possible
   whenever the other is, so fairness is stated on this part of the step,
   which is evaluated without the values the body computes. *)
LoopControl ==
    /\ pc = "fit"
    /\ \/ /\ next_model <= Len(MODELS) /\ Len(attempts) < MaxAttempts
          /\ next_model' = next_model + 1 /\ pc' = pc
       \/ /\ next_model > Len(MODELS)
          /\ pc' = "fitted" /\ next_model' = next_model

SpecLoop == InitLoop /\ [][NextLoop]_vars /\ WF_<<pc, next_model>>(LoopControl)

----------------------------------------------------------------------------
(* Specification SpecAnySize: fit_complexity_models followed by
   determine_best_model on the series of one method whose sizes are any
   integers: num_instances is read from the CSV and not checked to be
   positive, and np.log(n + 1) is -inf at n = -1 and NaN below *)

AnySizes == {-2, -1, 1}

InitAnySize ==
    /\ pc = "fit"
    /\ n_values \in {s \in SeqsUpTo(AnySizes, MaxLen) : Ascending(s)}
    /\ time_values \in {t \in SeqsUpTo({Num(v) : v \in TimeValues}, MaxLen) :
                            Len(t) = Len(n_values)}
    /\ solver = <<>> /\ fit_results = <<>>
    /\ best_model = NoModel /\ best_r2 = NegInf
    /\ Idle

(* best_model, best_r2 = determine_best_model(fit_results) *)
SelectFitted ==
    /\ pc = "fitted"
    /\ \E best \in {determine_best_model(fit_results)} :
          /\ best_model' = best.best_model
          /\ best_r2' = best.best_r2
    /\ pc' = "selected"
    /\ UNCHANGED <<df, avg_df, todo, n_values, time_values, solver,
                   fit_results, analysis_results, report, console, plotted,
                   calls, previous, evaluated, next_model, attempts, raised>>

NextAnySize == Fit \/ SelectFitted

SpecAnySize == InitAnySize /\ [][NextAnySize]_vars

----------------------------------------------------------------------------
(* Properties of the run of main (Spec) *)

NoModelSelected(i) == analysis_results[i].value.best_model = NoModel

(* C5: a run in which some method has no selected model still ends normally,
   with the report and the console summary covering every analysed method. *)
C5_RunCompletesWithoutModel ==
    (/\ pc \in {"done", "crashed"}
     /\ \E i \in 1..Len(analysis_results) : NoModelSelected(i)) =>
        /\ pc = "done"
        /\ raised = "none"
        /\ Len(report.best) = Len(analysis_results)
        /\ Len(console) = Len(analysis_results)

(* C6: the result of a fit has one entry per catalog model, in catalog
   order; a model whose fit raised maps to None and every other model maps
   to the result computed from its own fit alone; and each method of the
   data gets its analysis, whatever failed for the methods before it. *)
C6_FailureIsolation ==
    /\ solver # <<>> =>
        /\ Len(fit_results) = Len(MODELS)
        /\ \A i \in 1..Len(MODELS) :
              /\ fit_results[i].key = MODELS[i].name
              /\ fit_results[i].value =
                    IF solver[i].exc # "none" THEN None
                    ELSE FitResult(MODELS[i], n_values, time_values, solver[i].popt)
        /\ analysis_results[Len(analysis_results)].value.fit_results = fit_results
    /\ pc \in {"methods", "summary", "done", "crashed"} =>
        /\ Len(analysis_results) + Len(todo) = Len(Methods(avg_df))
        /\ \A i \in 1..Len(analysis_results) :
              /\ analysis_results[i].key = Methods(avg_df)[i]
              /\ Len(analysis_results[i].value.fit_results) = Len(MODELS)

C6_Witness ==
    /\ pc = "methods"
    /\ todo = <<>>
    /\ Len(analysis_results) = 2
    /\ \A i \in 1..Len(MODELS) : analysis_results[1].value.fit_results[i].value = None
    /\ solver[1].exc = "RuntimeError"
    /\ solver[2].exc = "TypeError"
    /\ fit_results[1].value = None
    /\ fit_results[3].value # None
    /\ fit_results[4].value # None

(* C10: with zero observations the aggregation fails with EmptyInputError
   and the run stops there. *)
C10_EmptyInputIsFatal ==
    (df = <<>> /\ pc # "start") => (pc = "crashed" /\ raised = "EmptyInputError")

----------------------------------------------------------------------------
(* Properties of fit_complexity_models (SpecFit) *)

(* C7: for a series with fewer points than the model has parameters, and
   for a model on which the solver used up its evaluations, the entry is
   None. *)
C7_DegenerateFitIsNone ==
    pc = "fitted" =>
        \A i \in 1..Len(MODELS) :
            (\/ /\ Len(n_values) = Len(time_values)
                /\ Len(time_values) < Len(MODELS[i].param_names)
             \/ solver[i].exc = "RuntimeError")
            => fit_results[i].value = None

C7_Witness ==
    /\ pc = "fitted"
    /\ Len(n_values) = 2 /\ Len(time_values) = 2
    /\ solver[2].exc = "TypeError" /\ fit_results[2].value = None
    /\ solver[3].exc = "RuntimeError" /\ fit_results[3].value = None
    /\ fit_results[1].value # None

(* all observed times are the same value *)
ConstantSeries(t) == \A i, j \in 1..Len(t) : t[i] = t[j]

(* C8: every successful fit on a series whose times are all identical, so
   that SS_tot = 0, has an R2 of exactly 0, and fitting it raises nothing. *)
C8_ConstantSeriesScoresZero ==
    (pc = "fitted" /\ SsTot(time_values) = Num(0)) =>
        /\ raised = "none"
        /\ \A i \in 1..Len(fit_results) :
              fit_results[i].value # None =>
                  fit_results[i].value.r_squared = Num(0)

C8_Witness ==
    /\ pc = "fitted"
    /\ Len(time_values) = 3
    /\ ConstantSeries(time_values)
    /\ fit_results[2].value # None
    /\ SsRes(time_values, fit_results[2].value.predictions) # Num(0)
    /\ fit_results[1].value # None
    /\ SsRes(time_values, fit_results[1].value.predictions) = Num(0)

(* C9: a call with vectors whose lengths do not match (and do not
   broadcast) ends with the exception reaching the caller. *)
C9_LengthMismatchPropagates ==
    (pc = "fitted" /\ ~Broadcastable(Len(n_values), Len(time_values))) =>
        raised # "none"


----------------------------------------------------------------------------
(* Properties of load_data and of the series of a method (SpecLoad) *)

(* the (method, size) pairs of a sequence of rows *)
Pairs(rows) == {<<rows[i].method, rows[i].num_instances>> : i \in 1..Len(rows)}

(* the aggregated points of one (method, size) pair *)
PointsOf(pair) ==
    {g \in 1..Len(avg_df) :
        avg_df[g].method = pair[1] /\ avg_df[g].num_instances = pair[2]}

(* C11: the aggregated output has exactly one point per (method, size) pair
   of the input and no other point, so the series of a method holds no size
   twice, also when rows of one (method, size) differ in percentage. *)
C11_OnePointPerMethodAndSize ==
    pc # "start" =>
        /\ Pairs(avg_df) = Pairs(df)
        /\ \A pair \in Pairs(df) : Cardinality(PointsOf(pair)) = 1
        /\ \A i, j \in 1..Len(n_values) : i # j => n_values[i] # n_values[j]


(* the observed times of one (method, size) pair, in row order *)
PairTimes(pair) ==
    LET rows == SelectSeq(df, LAMBDA r : r.method = pair[1] /\ r.num_instances = pair[2])
    IN  [i \in 1..Len(rows) |-> Num(rows[i].time_ms)]

(* C12: every (method, size) pair of the input has an aggregated point, and
   the point's mean is the sum of the pair's observed times divided by their
   number, its min the least and its max the greatest of those times. *)
C12_MeanMinMaxOfPair ==
    pc # "start" =>
        \A pair \in Pairs(df) :
            /\ PointsOf(pair) # {}
            /\ \A g \in PointsOf(pair) :
                  /\ avg_df[g].avg_time_ms =
                        RDiv(SumSeq(PairTimes(pair)), Num(Len(PairTimes(pair))))
                  /\ avg_df[g].min_time_ms = Least(PairTimes(pair))
                  /\ avg_df[g].max_time_ms = Greatest(PairTimes(pair))


(* the observed times of the group of aggregated row g *)
TimesOfPoint(g) ==
    GroupTimes(df, <<MethodRank(avg_df[g].method), avg_df[g].percentage,
                     avg_df[g].num_instances>>)

(* C13: an aggregated point whose group is k identical observations (k = 1
   included) has the standard deviation 0, not NaN, and reports the sample
   count k. *)
C13_IdenticalGroupHasZeroStd ==
    pc # "start" =>
        \A g \in 1..Len(avg_df) :
            ConstantSeries(TimesOfPoint(g)) =>
                /\ avg_df[g].std_time_ms # NaN
                /\ avg_df[g].std_time_ms = Sqrt(Num(0))
                /\ "count" \in DOMAIN avg_df[g]
                /\ avg_df[g].count = Len(TimesOfPoint(g))


(* the method whose series was extracted last *)
LastMethod == Methods(avg_df)[Len(Methods(avg_df)) - Len(todo)]

(* the one-to-one mappings of 1..k onto itself *)
Bijections(k) == {f \in [1..k -> 1..k] : \A i, j \in 1..k : f[i] = f[j] => i = j}

(* C14: whatever the order of the rows of the input, the sizes handed to the
   fitter for a method are ascending, and the size and time vectors are the
   aggregated points of the method, pair by pair: the i-th time is the mean
   time of the point of the i-th size. *)
C14_SeriesAscendingAndAligned ==
    (pc = "methods" /\ Len(todo) < Len(Methods(avg_df))) =>
        LET points == SelectSeq(avg_df, LAMBDA r : r.method = LastMethod)
        IN  /\ Len(n_values) = Len(points)
            /\ Len(time_values) = Len(points)
            /\ Ascending(n_values)
            /\ \E f \in Bijections(Len(points)) :
                  \A i \in 1..Len(points) :
                      /\ n_values[i] = points[f[i]].num_instances
                      /\ time_values[i] = points[f[i]].avg_time_ms
            /\ \A i \in 1..Len(n_values) :
                  Cardinality(PointsOf(<<LastMethod, n_values[i]>>)) = 1 =>
                      time_values[i] =
                          RDiv(SumSeq(PairTimes(<<LastMethod, n_values[i]>>)),
                               Num(Len(PairTimes(<<LastMethod, n_values[i]>>))))

C14_Witness ==
    /\ pc = "methods"
    /\ todo = <<>>
    /\ Len(df) = 3
    /\ df[1].num_instances = 2 /\ df[2].num_instances = 1
    /\ Len(avg_df) = 2
    /\ avg_df[1].method = "A" /\ avg_df[1].num_instances = 2
    /\ avg_df[2].method = "A" /\ avg_df[2].num_instances = 1
    /\ n_values = <<1, 2>>
    /\ time_values = <<Num(2), Rat(3, 2)>>


----------------------------------------------------------------------------
(* Properties of the loop of plot_individual_methods (Spec) *)

(* C15: the times handed to the fitter are the aggregated avg_time_ms of
   the method, in milliseconds and unchanged, and the fits are scored on
   them; the division by 1000 is applied to the measured points and to the
   curves that are drawn, and to nothing else. *)
C15_FitInMillisecondsDisplayInSeconds ==
    solver # <<>> =>
        LET data == MethodData(avg_df, LastMethod)
            ms == [i \in 1..Len(data) |-> data[i].avg_time_ms]
        IN  /\ time_values = ms
            /\ fit_results = fit_complexity_models(n_values, ms, solver)
            /\ analysis_results[Len(analysis_results)].value.fit_results = fit_results
            /\ Len(plotted.measured) = Len(ms)
            /\ \A i \in 1..Len(ms) :
                  /\ plotted.measured[i].n = n_values[i]
                  /\ RMul(plotted.measured[i].seconds, Num(MsPerSecond)) = ms[i]
            /\ \A k \in 1..Len(plotted.curves) :
                  LET result == Get(fit_results, plotted.curves[k].model)
                  IN  /\ result # None
                      /\ RMul(plotted.curves[k].seconds[1], Num(MsPerSecond)) =
                            Apply(result.model_func, n_values[1], result.popt)
                      /\ RMul(plotted.curves[k].seconds[2], Num(MsPerSecond)) =
                            Apply(result.model_func, n_values[Len(n_values)],
                                  result.popt)

C15_Witness ==
    /\ pc = "methods"
    /\ n_values = <<1, 2>>
    /\ time_values = <<Num(1), Num(2)>>
    /\ plotted.measured = <<[n |-> 1, seconds |-> Rat(1, 1000)],
                            [n |-> 2, seconds |-> Rat(2, 1000)]>>
    /\ fit_results[1].value # None
    /\ fit_results[1].value.popt = <<Num(1), Num(0)>>
    /\ fit_results[1].value.r_squared = Num(1)
    /\ Len(plotted.curves) = 3
    /\ plotted.curves[1].seconds = <<Rat(1, 1000), Rat(2, 1000)>>


(* the series of a method computed from the rows of that method alone *)
OwnSeries(method) ==
    MethodData(load_data(SelectSeq(df, LAMBDA r : r.method = method)), method)

(* C18: the analysis of a method is a function of the rows of that method:
   the series handed to the fitter is the one aggregated from its own rows,
   every stored result is the score of the model's own parameters on that
   series, and the selection is made among these results; the rows of the
   other methods and the methods analysed before or after do not enter.
   Stated for the loop over the methods; what follows it leaves
   analysis_results as it is. *)
C18_MethodIndependence ==
    pc = "methods" =>
      \A i \in 1..Len(analysis_results) :
          \A own \in {OwnSeries(analysis_results[i].key)} :
          \A n \in {Column(own, "num_instances")} :
          \A t \in {Column(own, "avg_time_ms")} :
          \A a \in {analysis_results[i].value} :
              /\ Len(a.fit_results) = Len(MODELS)
              /\ \A k \in 1..Len(MODELS) :
                    \/ a.fit_results[k].value = None
                    \/ a.fit_results[k].value =
                          FitResult(MODELS[k], n, t, a.fit_results[k].value.popt)
              /\ a.best_model = determine_best_model(a.fit_results).best_model
              /\ a.best_r2 = determine_best_model(a.fit_results).best_r2
              /\ i = Len(analysis_results) =>
                    /\ n_values = n
                    /\ time_values = t
                    /\ a = [fit_results |-> fit_complexity_models(n, t, solver),
                            best_model |-> best_model,
                            best_r2 |-> best_r2]

C18_Witness ==
    /\ pc = "methods"
    /\ todo = <<>>
    /\ Len(analysis_results) = 2
    /\ analysis_results[1].key = "A" /\ analysis_results[2].key = "B"
    /\ analysis_results[1].value.best_model = NoModel
    /\ n_values = <<1, 2>>
    /\ analysis_results[2].value.best_model = "O(n log n)"

(* the R2 of a model of analysed method i, None for a failed fit *)
ScoreOf(i, model) ==
    IF Get(analysis_results[i].value.fit_results, model) = None THEN None
    ELSE Get(analysis_results[i].value.fit_results, model).r_squared

(* C19: for every analysed method the report names the selected model, and
   its detailed comparison lists every catalog model that was attempted, the
   failed ones included, ordered by R2 with the best first. *)
C19_ReportRanksAllModels ==
    pc \in {"summary", "done", "crashed"} =>
        /\ Len(report.best) = Len(analysis_results)
        /\ Len(report.detail) = Len(analysis_results)
        /\ \A i \in 1..Len(analysis_results) :
              LET listed == report.detail[i].models
              IN  /\ report.best[i].best_model = analysis_results[i].value.best_model
                  /\ {listed[k].model : k \in 1..Len(listed)} = ModelNames
                  /\ \A k \in 1..(Len(listed) - 1) :
                        \/ ScoreOf(i, listed[k + 1].model) = None
                        \/ /\ ScoreOf(i, listed[k].model) # None
                           /\ Ge(ScoreOf(i, listed[k].model),
                                 ScoreOf(i, listed[k + 1].model))

----------------------------------------------------------------------------
(* Properties of the end-to-end scenario (SpecScenario) *)

(* C16: on the six observations of the scenario the aggregation yields the
   points (100, 11), (200, 21), (400, 40), and with the fits of O(n) and
   O(n^2) converged to their least-squares parameters the selected model is
   O(n). *)
C16_ScenarioSelectsLinear ==
    (/\ pc = "methods" /\ todo = <<>> /\ solver # <<>>
     /\ LeastSquares(MODELS[1], n_values, time_values, solver[1])
     /\ LeastSquares(MODELS[2], n_values, time_values, solver[2])) =>
        /\ n_values = <<100, 200, 400>>
        /\ time_values = <<Num(11), Num(21), Num(40)>>
        /\ best_model = "O(n)"


----------------------------------------------------------------------------
(* Properties of two runs on one table (SpecRerun) *)

(* C17: the second run of the pipeline on the same observations gives, for
   every method, the results of the first run: the same failed models, the
   same parameters and R2 values, the same selected model and score. *)
C17_SecondRunRepeatsFirst ==
    (previous # <<>> /\ pc = "methods") =>
        /\ Len(analysis_results) + Len(todo) = Len(previous[1])
        /\ \A i \in 1..Len(analysis_results) :
              analysis_results[i] = previous[1][i]

C17_Witness ==
    /\ previous # <<>>
    /\ pc = "methods"
    /\ todo = <<>>
    /\ Len(analysis_results) = 1
    /\ analysis_results = previous[1]
    /\ analysis_results[1].value.fit_results[1].value # None
    /\ analysis_results[1].value.fit_results[3].value = None
    /\ analysis_results[1].value.fit_results[4].value # None
    /\ analysis_results[1].value.best_model = "O(log n)"


----------------------------------------------------------------------------
(* Properties of the catalog functions (SpecEval) *)

(* C20: in O(n log n) and O(log n) the logarithm is taken of n + 1: for
   every size n >= 0, n = 0 included, its argument is at least 1, its value
   is a number that is not negative, the model's value is a number, and
   nothing is raised. *)
C20_LogOfSizePlusOne ==
    (pc = "evaluated" /\ UsesLog(evaluated.func) /\ evaluated.n >= 0) =>
        /\ evaluated.log_arg = evaluated.n + 1
        /\ evaluated.log_arg >= 1
        /\ Finite(evaluated.log)
        /\ Ge(evaluated.log, Num(0))
        /\ Finite(evaluated.value)
        /\ raised = "none"

C20_Witness ==
    /\ pc = "evaluated"
    /\ evaluated.func = "logarithmic"
    /\ evaluated.n = 0
    /\ evaluated.popt = <<Num(1), Num(-1)>>
    /\ evaluated.log_arg = 1
    /\ evaluated.log = Num(0)
    /\ evaluated.value = Num(-1)

----------------------------------------------------------------------------
(* Properties of the loop of fit_complexity_models (SpecLoop) *)

(* C21: for every series the fit ends, after one call of curve_fit for each
   catalog model, made in catalog order with maxfev = 10000 and using no more
   evaluations than that, whether the calls converge, give up or raise; no
   model is tried a second time, and the mapping returned is the one of the
   catalog in order. *)
C21_FitTerminatesOneAttemptPerModel ==
    /\ [](/\ Len(attempts) <= Len(MODELS)
          /\ next_model = Len(attempts) + 1
          /\ \A i \in 1..Len(attempts) :
                /\ attempts[i].args = CallArgs(MODELS[i], n_values, time_values)
                /\ attempts[i].args.maxfev = MaxFev
                /\ attempts[i].nfev <= MaxFev
          /\ pc = "fitted" =>
                /\ Len(attempts) = Len(MODELS)
                /\ fit_results =
                      fit_complexity_models(n_values, time_values,
                          [i \in 1..Len(MODELS) |-> attempts[i].outcome]))
    /\ <>(pc = "fitted")

C21_Witness ==
    /\ pc = "fitted"
    /\ Len(n_values) = 2 /\ Len(time_values) = 2
    /\ Len(attempts) = Len(MODELS)
    /\ attempts[1].outcome.exc = "RuntimeError" /\ attempts[1].nfev = MaxFev
    /\ attempts[2].outcome.exc = "TypeError" /\ attempts[2].nfev = 0
    /\ attempts[3].outcome.exc = "none" /\ attempts[3].nfev < MaxFev
    /\ fit_results[1].value = None
    /\ fit_results[2].value = None
    /\ fit_results[3].value # None

----------------------------------------------------------------------------
(* Properties of determine_best_model, continued (SpecSelect) *)

(* C23: among the non-failed models whose R2 is maximal the selected model
   is the first in catalog order, whatever the numbers of parameters of the
   tied models, and the score returned is that maximal R2. *)
C23_FirstOfTiedWins ==
    (pc = "selected" /\ MaxTied # {}) =>
        /\ best_model = fit_results[Earliest(MaxTied)].key
        /\ best_model = MODELS[Earliest(MaxTied)].name
        /\ best_r2 = R2Of(Earliest(MaxTied))

C23_Witness ==
    /\ pc = "selected"
    /\ Succeeded = 1..Len(MODELS)
    /\ MaxTied = {2, 4}
    /\ NumParams(MODELS[2].name) > NumParams(MODELS[4].name)
    /\ best_model = "O(n^2)"
    /\ best_r2 = R2Of(4)

----------------------------------------------------------------------------
(* Properties of the selection after a fit (SpecAnySize) *)

(* C24: after the selection, no model is selected exactly when every entry
   of fit_results is None; a fit that did not fail is enough for a model to
   be selected, even when its R2 is NaN or -inf. *)
C24_SelectedIffSomeFitSucceeded ==
    pc = "selected" => (best_model = NoModel <=> Succeeded = {})

(* C22: after the selection, when a model is selected its entry is not None
   and best_r2 is that entry's r_squared; when no model is selected, best_r2
   is -inf and no entry of fit_results has that score. *)
C22_ScoreIsSelectedModelsR2 ==
    pc = "selected" =>
        IF best_model # NoModel
        THEN \E i \in Succeeded :
                /\ fit_results[i].key = best_model
                /\ best_r2 = R2Of(i)
        ELSE /\ best_r2 = NegInf
             /\ \A i \in Succeeded : R2Of(i) # best_r2

====
